---- MODULE Spec2Model ----
(***************************************************************************)
(* Model of the accessibility tester: the crawl of test_page over the      *)
(* browser windows of one webdriver session (src/accessibility_tester.py), *)
(* the run of main (src/main.py), the rule evaluators and calculate_result.*)
(***************************************************************************)
EXTENDS Integers, Sequences, FiniteSets, TLC

(* ---------------------------------------------------------------------- *)
(* Bounds                                                                   *)
(* ---------------------------------------------------------------------- *)
\* number of distinct same-origin page URLs; URL 1 is the root (self.url)
NumPages == 3
\* largest number of <a> elements find_elements returns for one page
MaxLinks == 3
\* required_degree takes the values 0/DegreeScale .. DegreeScale/DegreeScale
DegreeScale == 4
\* largest value of one counter of self.correct / self.wrong when
\* calculate_result is examined on its own
MaxTally == 1
\* largest number of buttons and inputs of a document when check_buttons is
\* examined on its own
MaxControls == 2

(* ---------------------------------------------------------------------- *)
(* URLs                                                                     *)
(* ---------------------------------------------------------------------- *)
\* link.get_attribute("href") of an <a> without target
None == 0
\* a URL on another host, the origin's host name does not occur in it
UrlForeign == -1
\* a URL the browser cannot load: driver.get raises WebDriverException
UrlBroken == -2
RootUrl == 1
SameOrigin == 1..NumPages
Hrefs == SameOrigin \cup {None, UrlForeign, UrlBroken}
\* the <a> elements of a page as the driver reports them at the moment the
\* loop reads them: is_displayed() and get_attribute("href")
Links == [displayed : BOOLEAN, href : Hrefs]

\* line 145: urlparse(self.url).hostname in driver.current_url
hostname_in(url) == url \in SameOrigin

\* urllib.parse.urljoin(self.url, href); get_attribute("href") returns the
\* absolute URL, and urljoin returns the base for a missing href
urljoin(base, href) == IF href = None THEN base ELSE href

\* driver.current_url once driver.get(url) has returned
current_url_after_get(url) == url

\* driver.get(url) raises
get_raises(url) == url = UrlBroken

Range(s) == {s[k] : k \in 1..Len(s)}

(* ---------------------------------------------------------------------- *)
(* State                                                                    *)
(* ---------------------------------------------------------------------- *)
VARIABLES
    follow,          \* self.follow
    pc,              \* position of main / the innermost test_page call
    window_handles,  \* driver.window_handles, in the order the windows were
                     \* opened; each window with its current URL
    current_window,  \* index of driver.current_window_handle, 0: no driver
    visited_links,   \* self.visited_links
    stack,           \* the active test_page calls, innermost last: the window
                     \* link_list was taken from, len(link_list) and i
    link,            \* link_list[i] of the innermost call while it is handled
    error,           \* the exception that ended the run, "none" if none
    audits,          \* number of times the six evaluators ran on each URL
    required_degree, \* self.required_degree, in units of 1/DegreeScale
    correct,         \* self.correct
    wrong,           \* self.wrong
    result,          \* what calculate_result printed last or raised
    page,            \* self.page: the parsed document, its elements in
                     \* document order
    html,            \* driver.page_source as test_page parsed it into
                     \* self.page
    pending          \* the evaluators that have not yet run on self.page

crawl_vars == <<follow, window_handles, current_window, visited_links, stack,
                link, audits>>
tally_vars == <<correct, wrong>>
vars == <<pc, error, crawl_vars, required_degree, tally_vars, result, page, html, pending>>

Categories == {"doc_language", "alt_texts", "input_labels", "empty_buttons",
               "empty_links", "color_contrast"}
\* sum(self.correct.values())
sum_values(d) ==
    d["doc_language"] + d["alt_texts"] + d["input_labels"] + d["empty_buttons"]
        + d["empty_links"] + d["color_contrast"]

AuditedUrls == SameOrigin \cup {UrlForeign, UrlBroken}
NoLink == [displayed |-> FALSE, href |-> None]

(* ---------------------------------------------------------------------- *)
(* Documents                                                                *)
(* ---------------------------------------------------------------------- *)
\* an attribute that is not in element.attrs
Absent == "<absent>"

\* a computed font-size as the characters of the string
Px(chars) == chars \o <<"p", "x">>

\* A tag of the parsed document:
\*   name, lang .. title   the tag name and the attributes the evaluators read
\*   strings               the text nodes below the tag, each "text", "blank"
\*                         (white space only) or "comment"
\*   imgs                  for an <a>: the alt attributes of its direct <img>
\*                         children
\*   inside                the name of the tag that encloses it
\*   display, font_size, font_weight, contrast
\*                         what the browser reports for it: the computed
\*                         style, and get_contrast_ratio of its colour and
\*                         background in hundredths
Element(name) ==
    [name |-> name, lang |-> Absent, type |-> Absent, alt |-> Absent,
     aria_label |-> Absent, aria_labelledby |-> Absent, id |-> Absent,
     for |-> Absent, value |-> Absent, title |-> Absent, strings |-> << >>,
     imgs |-> << >>, inside |-> "body", display |-> "block",
     font_size |-> Px(<<"1", "6">>), font_weight |-> "400", contrast |-> 2100]

\* self.page.find_all(name)
find_all(doc, name) == SelectSeq(doc, LAMBDA e : e.name = name)

\* element.findAll(text=True) is not []
has_texts(e) == e.strings # << >>

\* self.page.find(id=value) is not None
has_id(doc, value) == \E k \in 1..Len(doc) : doc[k].id = value

\* self.page.find(id=value): the first element in document order
find_id(doc, value) ==
    doc[CHOOSE k \in 1..Len(doc) :
            /\ doc[k].id = value
            /\ \A j \in 1..(k - 1) : doc[j].id # value]

\* number of elements of a list that satisfy a test
Count(seq, Test(_)) == Cardinality({k \in 1..Len(seq) : Test(seq[k])})

\* sum of a list of numbers
RECURSIVE Sum(_)
Sum(seq) == IF seq = << >> THEN 0 ELSE Head(seq) + Sum(Tail(seq))

\* the list [f(x) for x in seq]
Map(seq, F(_)) == [k \in 1..Len(seq) |-> F(seq[k])]

\* the counters with n more correct and m more wrong findings of a category
Tallied(t, category, n, m) ==
    [correct |-> [t.correct EXCEPT ![category] = @ + n],
     wrong |-> [t.wrong EXCEPT ![category] = @ + m]]

(* ---------------------------------------------------------------------- *)
(* Rule evaluators                                                          *)
(* ---------------------------------------------------------------------- *)
\* check_doc_language without the else of lines 164-166: a missing lang
\* attribute is not counted
after_check_doc_language_missing(doc, t) ==
    LET lang_attr == find_all(doc, "html")[1].lang
    IN IF lang_attr # Absent /\ lang_attr # ""
       THEN Tallied(t, "doc_language", 1, 0)
       ELSE IF lang_attr # Absent
            THEN Tallied(t, "doc_language", 0, 1)
            ELSE t

\* check_doc_language: one finding for the lang attribute of <html>
after_check_doc_language(doc, t) ==
    LET lang_attr == find_all(doc, "html")[1].lang
    IN IF lang_attr # Absent /\ lang_attr # ""
       THEN Tallied(t, "doc_language", 1, 0)
       ELSE Tallied(t, "doc_language", 0, 1)

\* an alt attribute that is there and not empty
alt_set(alt_text) == alt_text # Absent /\ alt_text # ""

\* check_alt_texts: one finding for every <img>, those below an <a> included
after_check_alt_texts(doc, t) ==
    LET images == find_all(doc, "img")
        links == find_all(doc, "a")
        good == Count(images, LAMBDA e : alt_set(e.alt))
                  + Sum(Map(links, LAMBDA e : Count(e.imgs, alt_set)))
        bad == Count(images, LAMBDA e : ~alt_set(e.alt))
                  + Sum(Map(links, LAMBDA e : Count(e.imgs, LAMBDA x : ~alt_set(x))))
    IN Tallied(t, "alt_texts", good, bad)

\* check_input_labels, lines 194-195: the input is examined at all
input_examined(e) ==
    \/ /\ e.type # Absent
       /\ e.type # "hidden"
       /\ e.type # "submit"
       /\ e.type # "reset"
       /\ e.type # "button"
    \/ e.type = Absent

\* lines 221-226: some label's "for" equals the input's "id"
label_correct(e, doc) ==
    \E k \in 1..Len(doc) :
        /\ doc[k].name = "label"
        /\ doc[k].for # Absent
        /\ e.id # Absent
        /\ doc[k].for = e.id

\* lines 197-231: the if/elif chain that decides between correct and wrong
input_labelled(e, doc) ==
    IF e.type # Absent /\ e.type = "image" /\ e.alt # Absent /\ e.alt # ""
    THEN TRUE
    ELSE IF e.aria_label # Absent /\ e.aria_label # ""
    THEN TRUE
    ELSE IF e.aria_labelledby # Absent /\ e.aria_labelledby # ""
    THEN IF has_id(doc, e.aria_labelledby)
         THEN has_texts(find_id(doc, e.aria_labelledby))
         ELSE FALSE
    ELSE label_correct(e, doc)

\* the counters after check_input_labels
after_check_input_labels(doc, t) ==
    LET inputs == find_all(doc, "input")
        good == Count(inputs, LAMBDA e : input_examined(e) /\ input_labelled(e, doc))
        bad == Count(inputs, LAMBDA e : input_examined(e) /\ ~input_labelled(e, doc))
    IN Tallied(t, "input_labels", good, bad)

\* line 237: find_all("input", type=["submit", "button", "reset"])
is_input_button(e) ==
    e.name = "input" /\ e.type \in {"submit", "button", "reset"}

\* line 242: the input has a value that is not empty
input_button_has_content(e) == e.value # Absent /\ e.value # ""

\* line 252: the button has text or a title that is not empty
button_has_content(e) == has_texts(e) \/ (e.title # Absent /\ e.title # "")

\* the counters after check_buttons
after_check_buttons(doc, t) ==
    LET inputs == SelectSeq(doc, is_input_button)
        buttons == find_all(doc, "button")
        good == Count(inputs, input_button_has_content)
                    + Count(buttons, button_has_content)
        bad == Count(inputs, LAMBDA e : ~input_button_has_content(e))
                    + Count(buttons, LAMBDA e : ~button_has_content(e))
    IN Tallied(t, "empty_buttons", good, bad)

\* line 273: the link has text, or images that all have an alt text
link_has_content(e) ==
    \/ has_texts(e)
    \/ (e.imgs # << >> /\ \A k \in 1..Len(e.imgs) : alt_set(e.imgs[k]))

\* the counters after check_links
after_check_links(doc, t) ==
    LET links == find_all(doc, "a")
    IN Tallied(t, "empty_links", Count(links, link_has_content),
               Count(links, LAMBDA e : ~link_has_content(e)))

\* extract_texts, lines 373-387: soup2 is the document itself, and script,
\* style, title and noscript tags with what they enclose, comments and the
\* doctype are taken out of it
Invisible == {"script", "style", "title", "noscript"}
stripped(doc) ==
    LET kept == SelectSeq(doc, LAMBDA e :
                    /\ e.name \notin Invisible
                    /\ e.inside \notin Invisible
                    /\ e.name # "doctype")
    IN [k \in 1..Len(kept) |->
            [kept[k] EXCEPT !.strings = SelectSeq(@, LAMBDA x : x # "comment")]]

\* [e] * (number of text nodes of e that are not blank)
RECURSIVE Repeated(_, _)
Repeated(e, n) == IF n = 0 THEN << >> ELSE <<e>> \o Repeated(e, n - 1)

\* extract_texts, lines 390-396: the parent of every text that is not blank
RECURSIVE text_parents(_)
text_parents(doc) ==
    IF doc = << >> THEN << >>
    ELSE Repeated(Head(doc), Len(SelectSeq(Head(doc).strings, LAMBDA x : x = "text")))
            \o text_parents(Tail(doc))

Digits == {"0", "1", "2", "3", "4", "5", "6", "7", "8", "9"}
DigitValue(ch) ==
    CASE ch = "0" -> 0 [] ch = "1" -> 1 [] ch = "2" -> 2 [] ch = "3" -> 3
      [] ch = "4" -> 4 [] ch = "5" -> 5 [] ch = "6" -> 6 [] ch = "7" -> 7
      [] ch = "8" -> 8 [] ch = "9" -> 9

\* int(''.join(filter(str.isdigit, font_size)))
RECURSIVE int_of_digits(_, _)
int_of_digits(chars, acc) ==
    IF chars = << >> THEN acc
    ELSE IF Head(chars) \in Digits
         THEN int_of_digits(Tail(chars), 10 * acc + DigitValue(Head(chars)))
         ELSE int_of_digits(Tail(chars), acc)

\* font_size.__contains__("px")
contains_px(chars) ==
    \E k \in 1..(Len(chars) - 1) : chars[k] = "p" /\ chars[k + 1] = "x"

\* lines 291-292: the element gets a contrast finding
contrast_examined(e) ==
    /\ e.display # "none"
    /\ \/ e.name # "input"
       \/ (e.name = "input" /\ e.type # Absent /\ e.type # "hidden")

\* lines 304-307: the text counts as large
large_text(e) ==
    /\ contains_px(e.font_size)
    /\ \/ int_of_digits(e.font_size, 0) >= 18
       \/ /\ \/ e.font_weight \in {"bold", "700", "800", "900"}
             \/ e.name = "strong"
          /\ int_of_digits(e.font_size, 0) >= 14

\* lines 308-320: contrast >= 3 for large text, contrast >= 4.5 otherwise
contrast_sufficient(e) ==
    IF large_text(e) THEN e.contrast >= 300 ELSE e.contrast >= 450

\* the counters after check_color_contrast, which examines the parents of
\* the texts and the inputs of the stripped document
after_check_color_contrast(doc, t) ==
    LET elements_with_text == text_parents(stripped(doc))
                                \o find_all(stripped(doc), "input")
    IN Tallied(t, "color_contrast",
               Count(elements_with_text, LAMBDA e :
                        contrast_examined(e) /\ contrast_sufficient(e)),
               Count(elements_with_text, LAMBDA e :
                        contrast_examined(e) /\ ~contrast_sufficient(e)))

\* lines 110-115: the six evaluators in the order test_page calls them
after_evaluators(doc, t) ==
    after_check_color_contrast(doc,
        after_check_links(doc,
            after_check_buttons(doc,
                after_check_input_labels(doc,
                    after_check_alt_texts(doc,
                        after_check_doc_language(doc, t))))))

(* ---------------------------------------------------------------------- *)
(* The run of main                                                          *)
(* ---------------------------------------------------------------------- *)
\* AccessibilityTester.__init__, called by main with the --level and --follow
\* of the command line
Init ==
    /\ follow \in BOOLEAN
    /\ required_degree = DegreeScale
    /\ correct = [c \in Categories |-> 0]
    /\ wrong = [c \in Categories |-> 0]
    /\ result = "none"
    /\ page = << >>
    /\ html = << >>
    /\ pending = {}
    /\ pc = "start_driver"
    /\ window_handles = << >>
    /\ current_window = 0
    /\ visited_links = << >>
    /\ stack = << >>
    /\ link = NoLink
    /\ error = "none"
    /\ audits = [u \in AuditedUrls |-> 0]

\* handles[handles.index(current_window_handle) - 1] with Python's indexing:
\* index 0 gives handles[-1], the last window
previous_window(cur, handles) == IF cur = 1 THEN Len(handles) ELSE cur - 1

\* self.correct and self.wrong
Tally == [correct |-> correct, wrong |-> wrong]

\* skip_link without the test "full_link in self.visited_links"
skip_link_ignoring_visited(l, cur_url, visited) ==
    \/ ~l.displayed
    \/ l.href = None
    \/ urljoin(RootUrl, l.href) = cur_url

\* the skip condition of lines 134-135
skip_link(l, cur_url, visited) ==
    \/ ~l.displayed
    \/ l.href = None
    \/ urljoin(RootUrl, l.href) = cur_url
    \/ urljoin(RootUrl, l.href) \in Range(visited)

\* the abandon condition of line 145
abandon_child(cur_url, visited) ==
    \/ cur_url \in Range(visited)
    \/ ~hostname_in(cur_url)

Top == stack[Len(stack)]
CurrentUrl == window_handles[current_window].url

Raise(kind) ==
    /\ pc' = "crashed"
    /\ error' = kind

\* start_driver: the first window is opened on self.url
start_driver ==
    /\ pc = "start_driver"
    /\ \E ok \in BOOLEAN :
        IF ok
        THEN /\ window_handles' = << [url |-> RootUrl] >>
             /\ current_window' = 1
             /\ pc' = "test_page"
             /\ error' = error
        ELSE /\ Raise("navigation")
             /\ UNCHANGED <<window_handles, current_window>>
    /\ UNCHANGED <<required_degree, correct, wrong, result, page, html, pending>>
    /\ UNCHANGED <<follow, visited_links, stack, link, audits>>

\* the pages of the site: one without accessibility errors and one with an
\* error of every category
PageAccessible ==
    << [Element("doctype") EXCEPT !.inside = "document"],
       [Element("html") EXCEPT !.lang = "en", !.inside = "document"],
       [Element("title") EXCEPT !.strings = <<"text">>, !.inside = "head"],
       [Element("p") EXCEPT !.strings = <<"text">>],
       [Element("img") EXCEPT !.alt = "filled"],
       [Element("input") EXCEPT !.type = "text", !.aria_label = "filled"],
       [Element("button") EXCEPT !.strings = <<"text">>],
       [Element("a") EXCEPT !.strings = <<"text">>] >>

PageFlawed ==
    << [Element("html") EXCEPT !.inside = "document"],
       [Element("p") EXCEPT !.strings = <<"text">>, !.contrast = 448],
       [Element("img") EXCEPT !.alt = ""],
       [Element("input") EXCEPT !.id = "a"],
       [Element("input") EXCEPT !.type = "submit", !.title = "filled"],
       [Element("a") EXCEPT !.imgs = <<Absent>>],
       Element("noscript"),
       [Element("a") EXCEPT !.strings = <<"comment">>, !.inside = "noscript"] >>

\* driver.page_source of a URL, parsed: the root is accessible, the pages
\* below it alternate
page_source(url) == IF url % 2 = 1 THEN PageAccessible ELSE PageFlawed

\* test_page, lines 108-126: the page of the current window is parsed and
\* the six evaluators run on it; with follow the URL is recorded and the
\* links of the page are listed
test_page_audit ==
    /\ pc = "test_page"
    /\ audits' = [audits EXCEPT ![CurrentUrl] = @ + 1]
    /\ LET doc == page_source(CurrentUrl)
       IN /\ html' = doc
          /\ page' = stripped(doc)
          /\ correct' = after_evaluators(doc, Tally).correct
          /\ wrong' = after_evaluators(doc, Tally).wrong
    /\ IF follow
       THEN /\ visited_links' = Append(visited_links, CurrentUrl)
            /\ \E n \in 0..MaxLinks :
                stack' = Append(stack, [win |-> current_window, n |-> n, i |-> 0])
            /\ pc' = "loop"
       ELSE /\ UNCHANGED <<visited_links, stack>>
            /\ pc' = "quit"
    /\ UNCHANGED <<required_degree, result, pending>>
    /\ UNCHANGED <<follow, window_handles, current_window, link, error>>

\* lines 127-137: the next link of the list is read and either skipped or
\* kept for opening.  The elements of link_list belong to the window the
\* list was taken from: in any other window the driver does not know them
\* and link.get_attribute raises.
test_page_next_link ==
    /\ pc = "loop"
    /\ Top.i < Top.n
    /\ IF current_window # Top.win
       THEN /\ Raise("stale element")
            /\ UNCHANGED <<stack, link>>
       ELSE \E l \in Links :
            /\ error' = error
            /\ IF skip_link(l, CurrentUrl, visited_links)
               THEN /\ stack' = [stack EXCEPT ![Len(stack)].i = @ + 1]
                    /\ link' = NoLink
                    /\ pc' = "loop"
               ELSE /\ stack' = stack
                    /\ link' = l
                    /\ pc' = "open"
    /\ UNCHANGED <<required_degree, correct, wrong, result, page, html, pending>>
    /\ UNCHANGED <<follow, window_handles, current_window, visited_links, audits>>

\* lines 140-142: a new window is opened, made current and navigated
test_page_open_link ==
    /\ pc = "open"
    /\ IF get_raises(link.href)
       THEN /\ window_handles' = Append(window_handles, [url |-> None])
            /\ Raise("navigation")
       ELSE /\ window_handles' = Append(window_handles,
                    [url |-> current_url_after_get(link.href)])
            /\ pc' = "loaded"
            /\ error' = error
    /\ current_window' = Len(window_handles) + 1
    /\ UNCHANGED <<required_degree, correct, wrong, result, page, html, pending>>
    /\ UNCHANGED <<follow, visited_links, stack, link, audits>>

\* lines 145-149: the loaded child is abandoned or test_page is called on it
test_page_check_child ==
    /\ pc = "loaded"
    /\ IF abandon_child(CurrentUrl, visited_links)
       THEN /\ current_window' = previous_window(current_window, window_handles)
            /\ stack' = [stack EXCEPT ![Len(stack)].i = @ + 1]
            /\ pc' = "loop"
       ELSE /\ pc' = "test_page"
            /\ UNCHANGED <<current_window, stack>>
    /\ link' = NoLink
    /\ UNCHANGED <<required_degree, correct, wrong, result, page, html, pending>>
    /\ UNCHANGED <<follow, window_handles, visited_links, error, audits>>

\* line 151 and the return of test_page: the caller's loop goes on with its
\* next link, main goes on with driver.quit()
test_page_return ==
    /\ pc = "loop"
    /\ Top.i = Top.n
    /\ current_window' = previous_window(current_window, window_handles)
    /\ IF Len(stack) = 1
       THEN /\ stack' = << >>
            /\ pc' = "quit"
       ELSE /\ LET rest == SubSeq(stack, 1, Len(stack) - 1)
               IN stack' = [rest EXCEPT ![Len(rest)].i = @ + 1]
            /\ pc' = "loop"
    /\ UNCHANGED <<required_degree, correct, wrong, result, page, html, pending>>
    /\ UNCHANGED <<follow, window_handles, visited_links, link, error, audits>>

\* main line 64: driver.quit() closes every window of the session
quit ==
    /\ pc = "quit"
    /\ window_handles' = << >>
    /\ current_window' = 0
    /\ pc' = "calculate_result"
    /\ UNCHANGED <<required_degree, correct, wrong, result, page, html, pending>>
    /\ UNCHANGED <<follow, visited_links, stack, link, error, audits>>

\* calculate_result_outcome that never raises
calculate_result_lenient(n_correct, n_false, degree) ==
    IF n_correct = 0 /\ n_false = 0 THEN "Nothing found"
    ELSE "Accessibility test successful"

\* calculate_result_outcome with > in the place of >=
calculate_result_strict(n_correct, n_false, degree) ==
    IF n_correct = 0 /\ n_false = 0 THEN "Nothing found"
    ELSE IF n_correct * DegreeScale > degree * (n_correct + n_false)
         THEN "Accessibility test successful"
         ELSE "Exception"

\* what calculate_result does with the sums of the counters: nothing to
\* report, the success message, or the exception of line 346.  The test
\* correct/(correct+false) >= self.required_degree is made with both sides
\* multiplied by DegreeScale * (correct+false), which is positive there.
calculate_result_outcome(n_correct, n_false, degree) ==
    IF n_correct = 0 /\ n_false = 0 THEN "Nothing found"
    ELSE IF n_correct * DegreeScale >= degree * (n_correct + n_false)
         THEN "Accessibility test successful"
         ELSE "Exception"

\* calculate_result, called by main after driver.quit()
calculate_result ==
    /\ pc = "calculate_result"
    /\ result' = calculate_result_outcome(sum_values(correct), sum_values(wrong),
                                           required_degree)
    /\ IF result' = "Exception"
       THEN Raise("too many accessibility errors")
       ELSE /\ pc' = "done"
            /\ error' = error
    /\ UNCHANGED <<crawl_vars, required_degree, tally_vars, page, html, pending>>

\* check_input_labels run on self.page
check_input_labels ==
    /\ pc = "check_input_labels"
    /\ LET t == after_check_input_labels(page, Tally)
       IN /\ correct' = t.correct
          /\ wrong' = t.wrong
    /\ pc' = "input_labels checked"
    /\ UNCHANGED <<error, crawl_vars, required_degree, result, page, html, pending>>

\* check_buttons run on self.page
check_buttons ==
    /\ pc = "check_buttons"
    /\ LET t == after_check_buttons(page, Tally)
       IN /\ correct' = t.correct
          /\ wrong' = t.wrong
    /\ pc' = "buttons checked"
    /\ UNCHANGED <<error, crawl_vars, required_degree, result, page, html, pending>>

\* check_color_contrast run on self.page; extract_texts works on self.page
\* itself (soup2 = soup), so what it takes out is gone from self.page
check_color_contrast ==
    /\ pc = "check_color_contrast"
    /\ LET t == after_check_color_contrast(page, Tally)
       IN /\ correct' = t.correct
          /\ wrong' = t.wrong
    /\ page' = stripped(page)
    /\ pc' = "color_contrast checked"
    /\ UNCHANGED <<error, crawl_vars, required_degree, result, html, pending>>

\* the counters after the evaluator of one category
after_check(category, doc, t) ==
    CASE category = "doc_language" -> after_check_doc_language(doc, t)
      [] category = "alt_texts" -> after_check_alt_texts(doc, t)
      [] category = "input_labels" -> after_check_input_labels(doc, t)
      [] category = "empty_buttons" -> after_check_buttons(doc, t)
      [] category = "empty_links" -> after_check_links(doc, t)
      [] category = "color_contrast" -> after_check_color_contrast(doc, t)

\* self.page after the evaluator of one category: check_color_contrast is
\* the one evaluator that calls extract_texts
page_after_check(category, doc) ==
    IF category = "color_contrast" THEN stripped(doc) ELSE doc

\* one of the six calls of lines 110-115, made on self.page as the calls
\* before it have left it
run_check ==
    /\ pc = "evaluators"
    /\ \E category \in pending :
        /\ correct' = after_check(category, page, Tally).correct
        /\ wrong' = after_check(category, page, Tally).wrong
        /\ page' = page_after_check(category, page)
        /\ pending' = pending \ {category}
        /\ pc' = IF pending' = {} THEN "evaluated" ELSE "evaluators"
    /\ UNCHANGED <<error, crawl_vars, required_degree, result, html>>

Next ==
    \/ start_driver
    \/ test_page_audit
    \/ test_page_next_link
    \/ test_page_open_link
    \/ test_page_check_child
    \/ test_page_return
    \/ quit
    \/ calculate_result

Spec == Init /\ [][Next]_vars

TypeOK ==
    /\ follow \in BOOLEAN
    /\ pc \in {"start_driver", "test_page", "loop", "open", "loaded", "quit",
              "calculate_result", "done", "crashed", "check_input_labels",
              "input_labels checked", "check_buttons", "buttons checked",
              "check_color_contrast", "color_contrast checked",
              "evaluators", "evaluated"}
    /\ pending \subseteq Categories
    /\ current_window \in 0..Len(window_handles)
    /\ error \in {"none", "navigation", "stale element", "too many accessibility errors"}

(* ---------------------------------------------------------------------- *)
(* Properties of the crawl                                                  *)
(* ---------------------------------------------------------------------- *)
Finished == pc \in {"calculate_result", "done", "crashed"}

\* the root page has loaded and no window has been opened for a link to
\* another host or to a page that does not load: the pages met so far are
\* same-origin pages
SameOriginGraph ==
    /\ audits[RootUrl] >= 1
    /\ \A k \in 1..Len(window_handles) : window_handles[k].url \in SameOrigin

\* C1: with follow enabled, on a graph of same-origin pages the crawl ends
\* normally with every link of every audited page handled, and every page
\* it met through an admissible link has been audited exactly once.
C1_EveryPageAuditedOnce ==
    (follow /\ SameOriginGraph /\ Finished) =>
        /\ error \in {"none", "too many accessibility errors"}
        /\ stack = << >>
        /\ \A p \in Range(visited_links) : audits[p] = 1
        /\ \A p \in SameOrigin : audits[p] <= 1

\* C2: no window is opened or navigated for a link whose URL is on a host
\* other than the origin's: the host test precedes the opening.
C2_NoForeignWindow ==
    \A k \in 1..Len(window_handles) : window_handles[k].url # UrlForeign

\* C3: every window opened for a child is released when the visit of the
\* child ends, so that while the links of a page at recursion depth d are
\* enumerated d+1 windows are open, and only the root window is left when
\* the root call has returned.
C3_WindowsMirrorDepth ==
    /\ pc = "loop" => Len(window_handles) = Len(stack)
    /\ pc = "quit" => Len(window_handles) = 1

\* C4: whenever the enumeration of the links of a page goes on, the current
\* window is the window of that page, the one its link list was taken from.
C4_ParentWindowCurrent ==
    pc = "loop" => current_window = Top.win

\* C5 (1): a link that is about to be opened in a new window has been
\* tested against visited_links and is not in it.
C5_CheckedBeforeOpen ==
    pc = "open" => urljoin(RootUrl, link.href) \notin Range(visited_links)

\* C5 (2): while the links of a page are enumerated the URL of the page is
\* in visited_links.
C5_OwnUrlRecorded ==
    pc \in {"loop", "open", "loaded"} =>
        \A k \in 1..Len(stack) :
            window_handles[stack[k].win].url \in Range(visited_links)

\* C5 (3): visited_links only grows.
C5_Grows ==
    /\ Len(visited_links') >= Len(visited_links)
    /\ SubSeq(visited_links', 1, Len(visited_links)) = visited_links

\* C5: with follow enabled, membership in visited_links is tested before a
\* window is opened for a link, the URL of a page is in visited_links before
\* its links are enumerated, and no URL ever leaves visited_links.
C5_VisitedDiscipline ==
    /\ [](follow => (C5_CheckedBeforeOpen /\ C5_OwnUrlRecorded))
    /\ [][C5_Grows]_vars

\* a page below the root is about to open a link while an earlier page is
\* recorded as visited
C5_Witness ==
    /\ follow
    /\ pc = "open"
    /\ Len(stack) >= 2
    /\ Len(visited_links) >= 2
    /\ link.href \in SameOrigin

\* C6: a navigation failure ends the run only when it is the root page that
\* fails to load; a child that fails to load is skipped and the crawl goes on.
C6_OnlyRootFailureAborts ==
    error = "navigation" => stack = << >>

\* number of times the six evaluators have run, over all URLs
RECURSIVE SumOver(_, _)
SumOver(f, S) ==
    IF S = {} THEN 0
    ELSE LET u == CHOOSE x \in S : TRUE
         IN f[u] + SumOver(f, S \ {u})

PagesAudited == SumOver(audits, AuditedUrls)

DocLanguageFindings == correct["doc_language"] + wrong["doc_language"]

\* C14 (1): no counter decreases in a step.
C14_NeverDecrease ==
    \A c \in Categories : correct'[c] >= correct[c] /\ wrong'[c] >= wrong[c]

\* C14 (2): a step that audits a page adds exactly 1 to the doc_language
\* findings, and no other step changes them.
C14_OnePerAudit ==
    IF audits' # audits
    THEN DocLanguageFindings' = DocLanguageFindings + 1
    ELSE DocLanguageFindings' = DocLanguageFindings

\* the root call of test_page has returned to main
CrawlReturned ==
    \/ pc \in {"quit", "calculate_result", "done"}
    \/ error = "too many accessibility errors"

\* C14 (3): after a crawl with follow, the doc_language findings, the
\* audits and the visited URLs are equal in number.
C14_FindingsMatchVisited ==
    (follow /\ CrawlReturned) =>
        /\ DocLanguageFindings = PagesAudited
        /\ PagesAudited = Len(visited_links)

\* C14: the counters never decrease, every audit of a page adds exactly 1
\* to correct[doc_language] + wrong[doc_language], and when a crawl with
\* follow has finished that sum equals the number of pages audited and the
\* number of URLs in visited_links.
C14_TallyInvariant ==
    /\ []C14_FindingsMatchVisited
    /\ [][C14_NeverDecrease /\ C14_OnePerAudit]_vars

\* a crawl with follow has finished after audits of a page with and of a
\* page without a lang attribute
C14_Witness ==
    /\ follow
    /\ CrawlReturned
    /\ Len(visited_links) >= 2
    /\ correct["doc_language"] >= 1
    /\ wrong["doc_language"] >= 1

(* ---------------------------------------------------------------------- *)
(* calculate_result on its own                                              *)
(* ---------------------------------------------------------------------- *)
Tallies == [Categories -> 0..MaxTally]

\* an instance whose counters hold any values, about to call calculate_result
InitResult ==
    /\ follow = FALSE
    /\ required_degree \in 0..DegreeScale
    /\ correct \in Tallies
    /\ wrong \in Tallies
    /\ result = "none"
    /\ page = << >>
    /\ html = << >>
    /\ pending = {}
    /\ pc = "calculate_result"
    /\ window_handles = << >>
    /\ current_window = 0
    /\ visited_links = << >>
    /\ stack = << >>
    /\ link = NoLink
    /\ error = "none"
    /\ audits = [u \in AuditedUrls |-> 0]

NextResult == calculate_result

SpecResult == InitResult /\ [][NextResult]_vars

Reported == result # "none"

\* C7: without findings calculate_result reports "Nothing found"; otherwise the
\* run passes exactly when correct/(correct+false) >= required_degree, and
\* for required_degree 1 exactly when there is no error at all.
C7_VerdictMatchesRatio ==
    Reported =>
        LET c == sum_values(correct)
            f == sum_values(wrong)
        IN /\ (c + f = 0) => result = "Nothing found"
           /\ (c + f > 0) =>
                /\ result \in {"Accessibility test successful", "Exception"}
                /\ (result = "Accessibility test successful") <=>
                       (c * DegreeScale >= required_degree * (c + f))
                /\ required_degree = DegreeScale =>
                       ((result = "Accessibility test successful") <=> f = 0)

\* a run with errors that still reaches the required degree
C7_Witness ==
    /\ result = "Accessibility test successful"
    /\ sum_values(wrong) > 0
    /\ required_degree > 0

AttrValues == {Absent, "", "filled"}
InputTypes == {Absent, "text", "image", "hidden", "submit", "reset", "button"}

\* the inputs of the documents examined
LabelInputs ==
    {[Element("input") EXCEPT !.type = t, !.alt = a, !.aria_label = al,
                              !.aria_labelledby = ab, !.id = i] :
        t \in InputTypes, a \in AttrValues, al \in AttrValues,
        ab \in {Absent, "", "x"}, i \in {Absent, "a", "x"}}

\* no label, or one label with or without a "for"
LabelLists ==
    {<< >>} \cup {<<[Element("label") EXCEPT !.for = f, !.strings = <<"text">>]>> :
                    f \in {Absent, "a", "b"}}

\* no element with the id "x", or a span with that id, with or without text
SpanLists ==
    {<< >>} \cup {<<[Element("span") EXCEPT !.id = "x", !.strings = st]>> :
                    st \in {<< >>, <<"text">>}}

LabelDocs ==
    {<<[Element("html") EXCEPT !.lang = "en"], inp>> \o labels \o spans :
        inp \in LabelInputs, labels \in LabelLists, spans \in SpanLists}

\* the state of an instance that has parsed a page and not yet examined it
InitEvaluator(docs, position, todo) ==
    /\ page \in docs
    /\ html = page
    /\ pending = todo
    /\ pc = position
    /\ follow = FALSE
    /\ required_degree = DegreeScale
    /\ correct = [c \in Categories |-> 0]
    /\ wrong = [c \in Categories |-> 0]
    /\ result = "none"
    /\ window_handles = <<[url |-> RootUrl]>>
    /\ current_window = 1
    /\ visited_links = << >>
    /\ stack = << >>
    /\ link = NoLink
    /\ error = "none"
    /\ audits = [u \in AuditedUrls |-> 0]

InitLabels == InitEvaluator(LabelDocs, "check_input_labels", {})

NextLabels == check_input_labels

SpecLabels == InitLabels /\ [][NextLabels]_vars

\* the four ways of C9 in which an input counts as labelled
C9_Labelled(e, doc) ==
    \/ e.type = "image" /\ e.alt # Absent /\ e.alt # ""
    \/ e.aria_label # Absent /\ e.aria_label # ""
    \/ /\ e.aria_labelledby # Absent /\ e.aria_labelledby # ""
       /\ has_id(doc, e.aria_labelledby)
       /\ has_texts(find_id(doc, e.aria_labelledby))
    \/ \E k \in 1..Len(doc) :
            doc[k].name = "label" /\ doc[k].for # Absent /\ doc[k].for = e.id

\* C9: check_input_labels records a pass for an input that is not of type
\* hidden, submit, reset or button exactly when it is an image input with
\* alt text, or has an aria-label, or its aria-labelledby refers to an
\* element with text, or a label's "for" equals its id; it records a failure
\* for every other such input.
C9_PassIffSomeLabel ==
    pc = "input_labels checked" =>
        LET inputs == SelectSeq(page, LAMBDA e :
                e.name = "input"
                /\ e.type \notin {"hidden", "submit", "reset", "button"})
        IN /\ correct["input_labels"] = Count(inputs, LAMBDA e : C9_Labelled(e, page))
           /\ wrong["input_labels"] = Count(inputs, LAMBDA e : ~C9_Labelled(e, page))

(* ---------------------------------------------------------------------- *)
(* check_buttons on its own                                                 *)
(* ---------------------------------------------------------------------- *)
\* inputs of the button types and of one other type, and button elements
Controls ==
    {[Element("input") EXCEPT !.type = t, !.value = v, !.title = ti] :
        t \in {"submit", "button", "reset", "text"}, v \in AttrValues,
        ti \in AttrValues}
    \cup {[Element("button") EXCEPT !.strings = st, !.title = ti] :
        st \in {<< >>, <<"text">>}, ti \in AttrValues}

ControlLists == UNION {[1..n -> Controls] : n \in 1..MaxControls}

ButtonDocs ==
    {<<[Element("html") EXCEPT !.lang = "en"]>> \o controls :
        controls \in ControlLists}

InitButtons == InitEvaluator(ButtonDocs, "check_buttons", {})

NextButtons == check_buttons

SpecButtons == InitButtons /\ [][NextButtons]_vars

\* the control has a value or content, or a title
C10_HasContentOrTitle(e) ==
    \/ e.name = "input" /\ e.value # Absent /\ e.value # ""
    \/ e.name = "button" /\ has_texts(e)
    \/ e.title # Absent /\ e.title # ""

\* C10: check_buttons records a pass for a button element or an input of
\* type submit, button or reset exactly when the control has a value or
\* content that is not empty or a title that is not empty, and a failure
\* for every other such control.
C10_PassIffContentOrTitle ==
    pc = "buttons checked" =>
        LET controls == SelectSeq(page, LAMBDA e :
                e.name = "button"
                \/ (e.name = "input" /\ e.type \in {"submit", "button", "reset"}))
        IN /\ correct["empty_buttons"] = Count(controls, C10_HasContentOrTitle)
           /\ wrong["empty_buttons"] = Count(controls, LAMBDA e : ~C10_HasContentOrTitle(e))

(* ---------------------------------------------------------------------- *)
(* check_color_contrast on its own                                          *)
(* ---------------------------------------------------------------------- *)
\* computed font sizes: 12px, 13.5px, 14px, 17.5px and 18px
FontSizes ==
    {Px(<<"1", "2">>), Px(<<"1", "3", ".", "5">>), Px(<<"1", "4">>),
     Px(<<"1", "7", ".", "5">>), Px(<<"1", "8">>)}

\* contrast ratios around the two thresholds, in hundredths
Contrasts == {299, 300, 449, 450}

\* a paragraph and a strong element with text, and inputs without a type
\* attribute, of type text and of type hidden
ContrastKinds ==
    {[Element("p") EXCEPT !.strings = <<"text">>],
     [Element("strong") EXCEPT !.strings = <<"text">>],
     Element("input"),
     [Element("input") EXCEPT !.type = "text"],
     [Element("input") EXCEPT !.type = "hidden"]}

ContrastElements ==
    {[e EXCEPT !.display = d, !.font_size = fs, !.font_weight = fw,
               !.contrast = c] :
        e \in ContrastKinds, d \in {"block", "none"}, fs \in FontSizes,
        fw \in {"400", "700"}, c \in Contrasts}

ContrastDocs ==
    {<<[Element("html") EXCEPT !.lang = "en"], e>> : e \in ContrastElements}

InitContrast == InitEvaluator(ContrastDocs, "check_color_contrast", {})

NextContrast == check_color_contrast

SpecContrast == InitContrast /\ [][NextContrast]_vars

\* an input that C11 gives a contrast finding
C11_VisibleInput(e) == e.type # "hidden" /\ e.display # "none"

\* C11: on a page whose only elements apart from <html> are inputs,
\* check_color_contrast records one finding, pass or fail, for every input
\* that is not of type hidden and whose display is not "none", with or
\* without a type attribute, and none for the other inputs.
C11_EveryVisibleInputExamined ==
    (/\ pc = "color_contrast checked"
     /\ \A k \in 1..Len(html) : html[k].name \in {"html", "input"}) =>
        correct["color_contrast"] + wrong["color_contrast"]
            = Count(find_all(html, "input"), C11_VisibleInput)

(* ---------------------------------------------------------------------- *)
(* The six evaluators in any order                                          *)
(* ---------------------------------------------------------------------- *)
\* number of elements that follow <html> in the documents examined
MaxElements == 2

\* elements of which extract_texts takes something out, and elements it
\* leaves alone
OrderElements ==
    {[Element("a") EXCEPT !.strings = <<"comment">>],
     [Element("a") EXCEPT !.strings = <<"text">>],
     [Element("a") EXCEPT !.strings = <<"text">>, !.inside = "noscript"],
     [Element("img") EXCEPT !.alt = "", !.inside = "noscript"],
     [Element("title") EXCEPT !.strings = <<"text">>, !.inside = "head"],
     [Element("p") EXCEPT !.strings = <<"text">>]}

OrderDocs ==
    {<<[Element("html") EXCEPT !.lang = "en"]>> \o elements :
        elements \in UNION {[1..n -> OrderElements] : n \in 1..MaxElements}}

InitOrder == InitEvaluator(OrderDocs, "evaluators", Categories)

NextOrder == run_check

SpecOrder == InitOrder /\ [][NextOrder]_vars

\* the counters of a new instance
NoFindings ==
    [correct |-> [c \in Categories |-> 0], wrong |-> [c \in Categories |-> 0]]

\* C12: in whatever order the six evaluators have run on a page, the
\* findings are those of the order of test_page on the document as it was
\* parsed: no evaluator leaves the document changed for the next one.
C12_SameFindingsInEveryOrder ==
    pc = "evaluated" => Tally = after_evaluators(html, NoFindings)

(* ---------------------------------------------------------------------- *)
(* Large text                                                               *)
(* ---------------------------------------------------------------------- *)
\* the rendered font size in tenths of a pixel, read as a decimal number
\* with at most one digit after the point
RECURSIVE C13_Tenths(_, _, _)
C13_Tenths(chars, acc, after_point) ==
    IF chars = << >> \/ Head(chars) \notin (Digits \cup {"."})
    THEN IF after_point THEN acc ELSE 10 * acc
    ELSE IF Head(chars) = "."
         THEN C13_Tenths(Tail(chars), acc, TRUE)
         ELSE C13_Tenths(Tail(chars), 10 * acc + DigitValue(Head(chars)),
                         after_point)

\* large text as C13 defines it
C13_Large(e) ==
    \/ C13_Tenths(e.font_size, 0, FALSE) >= 180
    \/ /\ C13_Tenths(e.font_size, 0, FALSE) >= 140
       /\ (e.font_weight \in {"bold", "700", "800", "900"} \/ e.name = "strong")

C13_Passes(e) ==
    IF C13_Large(e) THEN e.contrast >= 300 ELSE e.contrast >= 450

\* C13: every element that check_color_contrast examines gets a pass
\* exactly when its contrast ratio is >= 3.0 and its text is large (font
\* size >= 18px, or >= 14px and bold or a strong element), or its contrast
\* ratio is >= 4.5; this for every font size, 13.5px and 17.5px included.
C13_LargeTextThresholds ==
    pc = "color_contrast checked" =>
        LET examined == SelectSeq(text_parents(stripped(html))
                                    \o find_all(stripped(html), "input"),
                                  contrast_examined)
        IN /\ correct["color_contrast"] = Count(examined, C13_Passes)
           /\ wrong["color_contrast"] = Count(examined, LAMBDA e : ~C13_Passes(e))
====
